---- MODULE Spec2Model ----
(***************************************************************************)
(* Model of the rollhub-dice MCP server (src/src/index.ts): the provably   *)
(* fair verification functions computeRoll, hashServerSeed, verifyBetProof *)
(* and the four tool handlers that call them (rollhub_bet,                 *)
(* rollhub_coinflip, rollhub_verify, rollhub_coinflip_verify).             *)
(*                                                                         *)
(* Representation.                                                         *)
(*  - A JavaScript string is a sequence of one-character strings; the      *)
(*    value undefined of a string field is the sequence Missing.           *)
(*  - A Buffer is a sequence of bytes 0..255.                              *)
(*  - A 32-bit word is a pair <<hi, lo>> of 16-bit halves, so that no      *)
(*    intermediate value leaves the range of TLC's 32-bit integers.       *)
(*  - A JavaScript number used as nonce is a record with a sign and a      *)
(*    magnitude in little-endian base-65536 limbs.                         *)
(*  - An outcome value is held in units of 10^-9 (rounded down), computed  *)
(*    by exact long division; the double arithmetic of the code differs    *)
(*    from the exact quotient by less than 10^-16, which is less than the  *)
(*    distance 1/(2*4294967295*10^6) of any quotient to a rounding tie.    *)
(*  - SHA3-384 and AES-256-CTR are library functions; they are modelled by *)
(*    deterministic stand-ins (see Sha3_384 and AesCtrZeroBlock).          *)
(***************************************************************************)
EXTENDS Integers, Sequences, FiniteSets, TLC

VARIABLES
    defaultKey,   \* DEFAULT_API_KEY, read once from the environment
    cipherSel,    \* which member of the stand-in cipher family this run uses
    phase,        \* "idle" | "awaiting" (handler suspended in await api) | "done"
    call,         \* the tool call in progress or last finished
    reply,        \* what the remote service answered to the call
    result        \* what the handler did: returned content, or threw

vars == <<defaultKey, cipherSel, phase, call, reply, result>>

----------------------------------------------------------------------------
(* JavaScript values *)

Missing == <<"undefined">>

EmptyString == <<>>

\* JavaScript truthiness of a string-or-undefined value
Truthy(s) == s # Missing /\ s # EmptyString

MissingNum == [kind |-> "undefined", neg |-> FALSE, limbs |-> <<>>, nano |-> 0]

\* an integer-valued JavaScript number, as sign and base-65536 limbs
IntNum(neg, limbs) == [kind |-> "number", neg |-> neg, limbs |-> limbs, nano |-> 0]

\* a JavaScript number given in units of 10^-9
NanoNum(n) == [kind |-> "number", neg |-> FALSE, limbs |-> <<>>, nano |-> n]

----------------------------------------------------------------------------
(* Hex text, Buffer.from(s, 'hex') and digest('hex') *)

HexLower == <<"0","1","2","3","4","5","6","7","8","9","a","b","c","d","e","f">>

HexUpper == <<"0","1","2","3","4","5","6","7","8","9","A","B","C","D","E","F">>

IsHexChar(c) == \E i \in 1..16 : HexLower[i] = c \/ HexUpper[i] = c

HexValue(c) == (CHOOSE i \in 1..16 : HexLower[i] = c \/ HexUpper[i] = c) - 1

\* every character is a hex digit and the length is even
IsValidHex(s) == Len(s) % 2 = 0 /\ \A i \in 1..Len(s) : IsHexChar(s[i])

\* Node decodes pairs of hex digits and stops, without an error, at the first
\* pair that is not two hex digits; a trailing single character is dropped.
RECURSIVE HexDecode(_)
HexDecode(s) ==
    IF Len(s) < 2 \/ ~IsHexChar(s[1]) \/ ~IsHexChar(s[2])
    THEN <<>>
    ELSE <<16 * HexValue(s[1]) + HexValue(s[2])>> \o HexDecode(SubSeq(s, 3, Len(s)))

\* Buffer.from(value, 'hex'): a TypeError when the value is not a string
BufferFromHex(s) ==
    IF s = Missing
    THEN [ok |-> FALSE, error |-> "TypeError", bytes |-> <<>>]
    ELSE [ok |-> TRUE, error |-> "none", bytes |-> HexDecode(s)]

\* buf.toString('hex') and digest('hex'): two lower-case digits per byte
HexEncode(bytes) ==
    [i \in 1..(2 * Len(bytes)) |->
        LET b == bytes[(i + 1) \div 2]
        IN  IF i % 2 = 1 THEN HexLower[(b \div 16) + 1] ELSE HexLower[(b % 16) + 1]]

\* String.prototype.toUpperCase on hex text (used by the service side only)
ToUpperHex(s) ==
    [i \in 1..Len(s) |->
        IF IsHexChar(s[i]) THEN HexUpper[HexValue(s[i]) + 1] ELSE s[i]]

----------------------------------------------------------------------------
(* Library cryptography, by deterministic stand-ins *)

DigestLen == 48

KeyLen == 32

BlockLen == 16

RECURSIVE Absorb(_, _)
Absorb(bytes, s) ==
    IF bytes = <<>> THEN s
    ELSE Absorb(Tail(bytes), ((s * 131) + bytes[1] + 1) % 65521)

\* createHash('sha3-384').update(bytes).digest(): a deterministic function of
\* the bytes with a 48-byte result.  The stand-in is a small sponge; on the
\* inputs of this model it has no collisions between different seeds.
Sha3_384(bytes) ==
    LET s == Absorb(bytes, 90 + Len(bytes))
    IN  [i \in 1..DigestLen |-> (((s + i) * (2 * i + 1)) + ((s \div 256) * i)) % 256]

RECURSIVE ByteSum(_)
ByteSum(bytes) == IF bytes = <<>> THEN 0 ELSE bytes[1] + ByteSum(Tail(bytes))

\* Keystream blocks the stand-in cipher can produce.  The exclusive-or of the
\* four little-endian words of each block is, in order:
\*   0x00000000, 0xffffffff, 0x80000000, 0x7fffffff, 0x3b71758b, 0x3b716b7f
Keystreams ==
    << <<0,0,0,0,       0,0,0,0,         0,0,0,0,   0,0,0,0>>,
       <<255,255,255,255, 0,0,0,0,       0,0,0,0,   0,0,0,0>>,
       <<0,0,0,192,     0,0,0,64,        0,0,0,0,   0,0,0,0>>,
       <<0,0,255,127,   255,255,0,0,     0,0,0,0,   0,0,0,0>>,
       <<0,0,0,59,      0,0,113,0,       0,117,0,0, 139,0,0,0>>,
       <<255,255,255,255, 128,148,142,196, 0,0,0,0, 0,0,0,0>> >>

\* createCipheriv('aes-256-ctr', key, iv).update(Buffer.alloc(16)): a
\* deterministic function of key and iv with a 16-byte result.  cipherSel
\* ranges over a family of such functions, so that every digest is mapped to
\* every block of Keystreams in some run.
AesCtrZeroBlock(key, iv) ==
    Keystreams[((ByteSum(key) + ByteSum(iv) + cipherSel) % Len(Keystreams)) + 1]

----------------------------------------------------------------------------
(* 32-bit words as pairs <<hi, lo>> of 16-bit halves; value hi * 65536 + lo *)

PGeq(p, q) == p[1] > q[1] \/ (p[1] = q[1] /\ p[2] >= q[2])

\* p - q, for p >= q
PSub(p, q) ==
    IF p[2] >= q[2]
    THEN <<p[1] - q[1], p[2] - q[2]>>
    ELSE <<p[1] - q[1] - 1, p[2] + 65536 - q[2]>>

\* p * k for a small k
PMulSmall(p, k) ==
    LET l == p[2] * k IN <<p[1] * k + (l \div 65536), l % 65536>>

RECURSIVE Xor16(_, _)
Xor16(a, b) ==
    IF a = 0 /\ b = 0 THEN 0
    ELSE (((a % 2) + (b % 2)) % 2) + 2 * Xor16(a \div 2, b \div 2)

\* buf.readUInt32LE(offset): the unsigned word at a 0-based byte offset
ReadUInt32LE(buf, offset) ==
    <<buf[offset + 3] + 256 * buf[offset + 4], buf[offset + 1] + 256 * buf[offset + 2]>>

\* A JavaScript number that is an integer of magnitude at most 2^32:
\* [neg, mag] with mag a pair.  Its 32-bit two's complement pattern:
Pattern32(n) ==
    IF n.neg /\ n.mag # <<0, 0>> THEN PSub(<<65536, 0>>, n.mag) ELSE n.mag

\* ToInt32: the signed reading of a 32-bit pattern
ToInt32(p) ==
    IF p[1] >= 32768
    THEN [neg |-> TRUE, mag |-> PSub(<<65536, 0>>, p)]
    ELSE [neg |-> FALSE, mag |-> p]

\* the unsigned reading of a 32-bit pattern (what ">>> 0" would give)
ToUint32(p) == [neg |-> FALSE, mag |-> p]

\* a ^ w with the result read as unsigned, as "(a ^ w) >>> 0" would be
JsXorUnsigned(a, w) ==
    LET p == Pattern32(a)
    IN  ToUint32(<<Xor16(p[1], w[1]), Xor16(p[2], w[2])>>)

\* a ^ w of JavaScript: both operands through ToInt32, the result an Int32
JsXor(a, w) ==
    LET p == Pattern32(a)
    IN  ToInt32(<<Xor16(p[1], w[1]), Xor16(p[2], w[2])>>)

----------------------------------------------------------------------------
(* Outcome values in units of 10^-9 *)

Nano == 10^9

\* 0.5, in units of 10^-9
Half == 500000000

\* 4294967295
Divisor == <<65535, 65535>>

\* the first n decimal digits of r / Divisor for r < Divisor, and whether the
\* division came out exact
RECURSIVE LongDiv(_, _, _)
LongDiv(r, n, acc) ==
    IF n = 0 THEN [q |-> acc, exact |-> (r = <<0, 0>>)]
    ELSE LET t == PMulSmall(r, 10)
             d == CHOOSE k \in 0..9 :
                     /\ PGeq(t, PMulSmall(Divisor, k))
                     /\ ~PGeq(t, PMulSmall(Divisor, k + 1))
         IN  LongDiv(PSub(t, PMulSmall(Divisor, d)), n - 1, acc * 10 + d)

\* floor and exactness of mag / 4294967295 in units of 10^-9, for mag <= 2^32 - 1
DivNano(mag) ==
    IF mag = Divisor THEN [q |-> Nano, exact |-> TRUE] ELSE LongDiv(mag, 9, 0)

\* 0.5 + x / 4294967295 in units of 10^-9, rounded down
Normalize(x) ==
    LET d == DivNano(x.mag)
    IN  IF x.neg THEN Half - d.q - (IF d.exact THEN 0 ELSE 1) ELSE Half + d.q

FractionDigits == 6

\* cutting after the sixth decimal digit instead of rounding to it
ToFixed6Truncating(nano) == nano \div (10^(9 - FractionDigits))

\* parseFloat(v.toFixed(6)) of a value given in units of 10^-9 that is not a
\* rounding tie: the nearest multiple of 10^-6, in units of 10^-6
ToFixed6(nano) ==
    LET unit == 10^(9 - FractionDigits) IN (nano + unit \div 2) \div unit

----------------------------------------------------------------------------
(* Provably fair verification: computeRoll, hashServerSeed, verifyBetProof *)

NonceLen == 8

WordLen == 4

\* a computeRoll that threw
RollError(e) ==
    [ok |-> FALSE, error |-> e, nonceBytes |-> <<>>,
     xor |-> [neg |-> FALSE, mag |-> <<0, 0>>], nano |-> 0]

IsZeroLimbs(limbs) == \A i \in 1..Len(limbs) : limbs[i] = 0

\* the integer is below 2^64
Fits64(limbs) == \A i \in 1..Len(limbs) : i > NonceLen \div 2 => limbs[i] = 0

\* the same value written big-endian, as writeBigUInt64BE would
WriteBigUInt64BE(limbs) ==
    [i \in 1..NonceLen |->
        LET k == NonceLen + 1 - i
            j == (k + 1) \div 2
            limb == IF j <= Len(limbs) THEN limbs[j] ELSE 0
        IN  IF k % 2 = 1 THEN limb % 256 ELSE limb \div 256]

\* nonceBytes.writeBigUInt64LE(v) on Buffer.alloc(8), for 0 <= v < 2^64
WriteBigUInt64LE(limbs) ==
    [i \in 1..NonceLen |->
        LET j == (i + 1) \div 2
            limb == IF j <= Len(limbs) THEN limbs[j] ELSE 0
        IN  IF i % 2 = 1 THEN limb % 256 ELSE limb \div 256]

\* the loop of lines 59-62, from byte offset i with accumulator xor
RECURSIVE XorLoop(_, _, _)
XorLoop(ct, i, xor) ==
    IF i >= BlockLen THEN xor
    ELSE XorLoop(ct, i + WordLen, JsXor(xor, ReadUInt32LE(ct, i)))

ComputeRoll(serverSeedHex, clientSeedHex, nonce) ==
    LET serverBytes == BufferFromHex(serverSeedHex)
        clientBytes == BufferFromHex(clientSeedHex)
    IN  IF ~serverBytes.ok THEN RollError(serverBytes.error)
        ELSE IF ~clientBytes.ok THEN RollError(clientBytes.error)
        \* BigInt(undefined) is a TypeError
        ELSE IF nonce.kind = "undefined" THEN RollError("TypeError")
        \* writeBigUInt64LE rejects a value outside 0 .. 2^64 - 1
        ELSE IF (nonce.neg /\ ~IsZeroLimbs(nonce.limbs)) \/ ~Fits64(nonce.limbs)
             THEN RollError("RangeError")
        ELSE LET nonceBytes == WriteBigUInt64LE(nonce.limbs)
                 digest == Sha3_384(serverBytes.bytes \o clientBytes.bytes \o nonceBytes)
                 key == SubSeq(digest, 1, KeyLen)
                 iv == SubSeq(digest, KeyLen + 1, DigestLen)
                 ct == AesCtrZeroBlock(key, iv)
                 xor == XorLoop(ct, 0, [neg |-> FALSE, mag |-> <<0, 0>>])
             IN  [ok |-> TRUE, error |-> "none", nonceBytes |-> nonceBytes,
                  xor |-> xor, nano |-> Normalize(xor)]

HashServerSeed(serverSeedHex) ==
    LET b == BufferFromHex(serverSeedHex)
    IN  IF ~b.ok THEN [ok |-> FALSE, error |-> b.error, hex |-> <<>>]
        ELSE [ok |-> TRUE, error |-> "none", hex |-> HexEncode(Sha3_384(b.bytes))]

\* verifyBetProof was not called
NoVerification ==
    [called |-> FALSE, thrown |-> FALSE, error |-> "none",
     verified |-> FALSE, hash_verified |-> FALSE, roll_verified |-> FALSE,
     roll_reported |-> 0, roll_recalculated |-> 0,
     computed |-> RollError("none")]

\* verifyBetProof threw e; computed is what its computeRoll call did, if made
VerifyThrew(e, computed) ==
    [NoVerification EXCEPT !.called = TRUE, !.thrown = TRUE, !.error = e,
                           !.computed = computed]

\* a comparison that accepts every commitment
HashEqualsAlways(computedHash, server_seed_hash) == TRUE

\* computedHash === data.server_seed_hash
HashEquals(computedHash, server_seed_hash) == computedHash = server_seed_hash

\* hashOk || rollOk
VerifiedEither(hashOk, rollOk) == hashOk \/ rollOk

\* verified: hashOk && rollOk
Verified(hashOk, rollOk) == hashOk /\ rollOk

\* the object with the merged flag reported as roll_verified
VerificationResultMerged(hashOk, rollOk, rollReported, rollRecalc) ==
    [verified |-> hashOk /\ rollOk,
     hash_verified |-> hashOk,
     roll_verified |-> hashOk /\ rollOk,
     roll_reported |-> rollReported,
     roll_recalculated |-> rollRecalc]

\* the object of lines 83-89
VerificationResult(hashOk, rollOk, rollReported, rollRecalc) ==
    [verified |-> Verified(hashOk, rollOk),
     hash_verified |-> hashOk,
     roll_verified |-> rollOk,
     roll_reported |-> rollReported,
     roll_recalculated |-> rollRecalc]

\* the record "computed" is the result of the computeRoll call the function
\* makes; the other fields are the returned object
VerifyBetProof(data) ==
    LET computedHash == HashServerSeed(data.server_seed)
    IN  IF ~computedHash.ok THEN VerifyThrew(computedHash.error, RollError("none"))
        ELSE
        LET hashOk == HashEquals(computedHash.hex, data.server_seed_hash)
            roll == ComputeRoll(data.server_seed, data.client_seed, data.nonce)
        IN  IF ~roll.ok THEN VerifyThrew(roll.error, roll)
            \* data.roll.toFixed of undefined is a TypeError
            ELSE IF data.roll.kind = "undefined" THEN VerifyThrew("TypeError", roll)
            ELSE
            LET rollRecalc == ToFixed6(roll.nano)
                rollReported == ToFixed6(data.roll.nano)
                rollOk == rollRecalc = rollReported
                r == VerificationResult(hashOk, rollOk, rollReported, rollRecalc)
            IN  [called |-> TRUE, thrown |-> FALSE, error |-> "none",
                 verified |-> r.verified,
                 hash_verified |-> r.hash_verified,
                 roll_verified |-> r.roll_verified,
                 roll_reported |-> r.roll_reported,
                 roll_recalculated |-> r.roll_recalculated,
                 computed |-> roll]

----------------------------------------------------------------------------
(* Inputs: tool arguments, generated client seeds, answers of the service *)

\* nonces 0 .. MaxSmallNonce are among the nonces the service sends
MaxSmallNonce == 1

\* how many different values crypto.randomBytes yields in the model
NumSecrets == 1

RandomLen == 16

ApiKeys == {"", "k"}

\* crypto.randomBytes(16).toString("hex"): 32 lower-case hex digits
ClientSecret(n) == HexEncode([j \in 1..RandomLen |-> ((n * 37) + j) % 256])

ClientSecrets == {ClientSecret(n) : n \in 1..NumSecrets}

SeedA == <<"a", "b">>

SeedB == <<"0", "1">>

\* "abzz" is not hex-encoded data
MalformedSeed == <<"a", "b", "z", "z">>

\* the commitment to SeedA as digest('hex') prints it, the same in upper
\* case, and the commitment to SeedB
Commitments ==
    {HashServerSeed(SeedA).hex, ToUpperHex(HashServerSeed(SeedA).hex),
     HashServerSeed(SeedB).hex}

ClientSeeds == {Missing, <<"c", "d">>, <<"c", "z">>}

\* undefined, -1, 0 .. MaxSmallNonce, 2^64 - 2048 (the largest double below
\* 2^64) and 2^64
Nonces ==
    {MissingNum, IntNum(TRUE, <<1>>), IntNum(FALSE, <<>>),
     IntNum(FALSE, <<63488, 65535, 65535, 65535>>), IntNum(FALSE, <<0, 0, 0, 0, 1>>)}
    \cup {IntNum(FALSE, <<n>>) : n \in 1..MaxSmallNonce}

\* undefined, 0.5, 0.7321996 and 0.732200001
Rolls == {MissingNum, NanoNum(Half), NanoNum(732199600), NanoNum(732200001)}

NoProof ==
    [present |-> FALSE, server_seed |-> Missing, server_secret |-> Missing,
     server_seed_hash |-> Missing, client_seed |-> Missing, nonce |-> MissingNum]

\* the service discloses the server seed under one name, server_seed or
\* server_secret, or not at all
Disclosures ==
    {<<Missing, Missing>>, <<SeedA, Missing>>, <<MalformedSeed, Missing>>,
     <<Missing, SeedA>>}

Proofs ==
    {NoProof} \cup
    {[present |-> TRUE, server_seed |-> d[1], server_secret |-> d[2],
      server_seed_hash |-> h, client_seed |-> c, nonce |-> n] :
        d \in Disclosures, h \in Commitments, c \in ClientSeeds, n \in Nonces}

NoData == [proof |-> NoProof, roll |-> MissingNum]

\* res.ok with its JSON body, or a failed request
Replies ==
    {[ok |-> FALSE, data |-> NoData]} \cup
    {[ok |-> TRUE, data |-> [proof |-> p, roll |-> r]] : p \in Proofs, r \in Rolls}

NoCall == [tool |-> "none", client_seed |-> Missing]

NoReply == [ok |-> FALSE, data |-> NoData]

NoResult ==
    [kind |-> "none", error |-> "none", data |-> NoData, field |-> "none",
     verification |-> NoVerification]

\* the handler threw; v is what verifyBetProof did, if it was called
Thrown(e, v) == [NoResult EXCEPT !.kind = "thrown", !.error = e, !.verification = v]

\* the handler returned the data as text, with v under the name field
Returned(data, field, v) ==
    [kind |-> "returned", error |-> "none", data |-> data, field |-> field,
     verification |-> v]

----------------------------------------------------------------------------
(* The server *)

ResolveKey(provided) == IF provided # "" THEN provided ELSE defaultKey

Init ==
    /\ defaultKey \in ApiKeys
    /\ cipherSel \in 0..(Len(Keystreams) - 1)
    /\ phase = "idle"
    /\ call = NoCall
    /\ reply = NoReply
    /\ result = NoResult

\* a tool handler up to its await of api(...): resolveKey throws without a key
Invoke(tool, api_key, client_seed) ==
    /\ phase \in {"idle", "done"}
    /\ call' = [tool |-> tool, client_seed |-> client_seed]
    /\ reply' = NoReply
    /\ IF ResolveKey(api_key) = ""
       THEN /\ phase' = "done"
            /\ result' = Thrown("NoApiKey", NoVerification)
       ELSE /\ phase' = "awaiting"
            /\ result' = NoResult
    /\ UNCHANGED <<defaultKey, cipherSel>>

\* the argument of verifyBetProof at lines 157-163 and 226-232
BetProofArg(data, client_secret) ==
    [server_seed |-> data.proof.server_seed,
     server_seed_hash |-> data.proof.server_seed_hash,
     client_seed |-> IF Truthy(data.proof.client_seed)
                     THEN data.proof.client_seed
                     ELSE client_secret,
     nonce |-> data.proof.nonce,
     roll |-> data.roll]

\* the argument of verifyBetProof at lines 193-199 and 252-258
VerifyProofArg(data) ==
    [server_seed |-> data.proof.server_secret,
     server_seed_hash |-> data.proof.server_seed_hash,
     client_seed |-> data.proof.client_seed,
     nonce |-> data.proof.nonce,
     roll |-> data.roll]

\* lines 155-167 and 224-236: verify when the proof has a truthy server_seed
BetOutcome(data, client_secret) ==
    IF data.proof.present /\ Truthy(data.proof.server_seed)
    THEN LET v == VerifyBetProof(BetProofArg(data, client_secret))
         IN  IF v.thrown THEN Thrown(v.error, v)
             ELSE Returned(data, "verification", v)
    ELSE Returned(data, "none", NoVerification)

\* lines 190-203 and 249-262: verify when the proof has a truthy server_secret
VerifyOutcome(data) ==
    IF data.proof.present /\ Truthy(data.proof.server_secret)
    THEN LET v == VerifyBetProof(VerifyProofArg(data))
         IN  IF v.thrown THEN Thrown(v.error, v)
             ELSE Returned(data, "client_verification", v)
    ELSE Returned(data, "none", NoVerification)

\* the rest of a handler, from the answer r of the service: api throws on a
\* failed request
Resume(tool, r, outcome) ==
    /\ phase = "awaiting"
    /\ call.tool = tool
    /\ reply' = r
    /\ result' = IF r.ok THEN outcome ELSE Thrown("ApiError", NoVerification)
    /\ phase' = "done"
    /\ UNCHANGED <<defaultKey, cipherSel, call>>

RollhubBetCall(api_key, client_secret) ==
    /\ Invoke("rollhub_bet", api_key, client_secret)

RollhubBetResume(r) ==
    /\ Resume("rollhub_bet", r, BetOutcome(r.data, call.client_seed))

RollhubCoinflipCall(api_key, client_seed) ==
    /\ Invoke("rollhub_coinflip", api_key, client_seed)

RollhubCoinflipResume(r) ==
    /\ Resume("rollhub_coinflip", r, BetOutcome(r.data, call.client_seed))

RollhubVerifyCall(api_key) ==
    /\ Invoke("rollhub_verify", api_key, Missing)

RollhubVerifyResume(r) ==
    /\ Resume("rollhub_verify", r, VerifyOutcome(r.data))

RollhubCoinflipVerifyCall(api_key) ==
    /\ Invoke("rollhub_coinflip_verify", api_key, Missing)

RollhubCoinflipVerifyResume(r) ==
    /\ Resume("rollhub_coinflip_verify", r, VerifyOutcome(r.data))

Next ==
    \/ \E k \in ApiKeys, s \in ClientSecrets : RollhubBetCall(k, s)
    \/ \E r \in Replies : RollhubBetResume(r)
    \/ \E k \in ApiKeys, s \in ClientSecrets : RollhubCoinflipCall(k, s)
    \/ \E r \in Replies : RollhubCoinflipResume(r)
    \/ \E k \in ApiKeys : RollhubVerifyCall(k)
    \/ \E r \in Replies : RollhubVerifyResume(r)
    \/ \E k \in ApiKeys : RollhubCoinflipVerifyCall(k)
    \/ \E r \in Replies : RollhubCoinflipVerifyResume(r)

Spec == Init /\ [][Next]_vars

----------------------------------------------------------------------------
(* What a finished call shows *)

BetTools == {"rollhub_bet", "rollhub_coinflip"}

VerifyTools == {"rollhub_verify", "rollhub_coinflip_verify"}

Done == phase = "done"

\* what verifyBetProof did in the finished call
V == result.verification

\* the argument verifyBetProof was called with
Given ==
    IF call.tool \in BetTools
    THEN BetProofArg(reply.data, call.client_seed)
    ELSE VerifyProofArg(reply.data)

\* verifyBetProof was called and reached computeRoll, which returned
Rolled == Done /\ V.called /\ V.computed.ok

\* verifyBetProof was called and returned its object
Checked == Done /\ V.called /\ ~V.thrown

NonceInRange(n) ==
    /\ n.kind = "number"
    /\ ~n.neg \/ IsZeroLimbs(n.limbs)
    /\ \A i \in 1..Len(n.limbs) : i > 4 => n.limbs[i] = 0

\* valid hex seeds, a nonce in range, a numeric reported outcome
WellFormed(p) ==
    /\ p.server_seed # Missing /\ IsValidHex(p.server_seed)
    /\ p.client_seed # Missing /\ IsValidHex(p.client_seed)
    /\ NonceInRange(p.nonce)
    /\ p.roll.kind = "number"

----------------------------------------------------------------------------
(* C1 *)

----------------------------------------------------------------------------
(* C2 *)

\* C2, as claimed: a proof whose server_seed or client_seed is not valid
\* hex-encoded data makes verifyBetProof fail; no result object is returned.
C2_MalformedHexIsError ==
    (Done /\ V.called /\ (~IsValidHex(Given.server_seed) \/ ~IsValidHex(Given.client_seed)))
        => (V.thrown /\ result.kind = "thrown")

----------------------------------------------------------------------------
(* C3 *)

\* C3, as claimed: when server_seed_hash equals the recomputed hash up to the
\* letter case of its hex digits, hash_verified is true.
C3_HashCompareIgnoresCase ==
    (Checked /\ ToUpperHex(Given.server_seed_hash)
                    = ToUpperHex(HashServerSeed(Given.server_seed).hex))
        => V.hash_verified

----------------------------------------------------------------------------
(* C4 *)

\* C4: for a well-formed proof verifyBetProof returns its object and the
\* handler returns; a server_seed_hash different from the recomputed hash
\* gives hash_verified = false and verified = false, and a reported outcome
\* that rounds to another value than the recomputed one gives
\* roll_verified = false and verified = false.
C4_MismatchesAreReported ==
    (Done /\ V.called /\ WellFormed(Given)) =>
        /\ ~V.thrown
        /\ result.kind = "returned"
        /\ Given.server_seed_hash # HashServerSeed(Given.server_seed).hex
              => (~V.hash_verified /\ ~V.verified)
        /\ V.roll_reported # V.roll_recalculated
              => (~V.roll_verified /\ ~V.verified)

\* a well-formed proof with the commitment of another seed, reported as such
C4_Witness ==
    /\ Done /\ V.called /\ WellFormed(Given)
    /\ Given.server_seed = SeedA
    /\ Given.server_seed_hash = HashServerSeed(SeedB).hex
    /\ result.kind = "returned"
    /\ ~V.hash_verified /\ ~V.verified

----------------------------------------------------------------------------
(* C5 *)

\* C5: a nonce that is missing, negative or above 2^64 - 1 makes computeRoll,
\* and with it verifyBetProof and the handler, throw; a non-negative integer
\* below 2^64 is accepted when the seeds are strings, and the 8 bytes hashed
\* are its little-endian encoding (byte i has weight 256^(i-1)).
C5_NonceRange ==
    (Done /\ V.called /\ Given.client_seed # Missing) =>
        IF NonceInRange(Given.nonce)
        THEN /\ V.computed.ok
             /\ Len(V.computed.nonceBytes) = 8
             /\ \A j \in 1..4 :
                    V.computed.nonceBytes[2 * j - 1] + 256 * V.computed.nonceBytes[2 * j]
                        = (IF j <= Len(Given.nonce.limbs) THEN Given.nonce.limbs[j] ELSE 0)
        ELSE /\ ~V.computed.ok
             /\ V.thrown
             /\ result.kind = "thrown"

\* the nonce 2^64 - 2048 is accepted and encoded 00 f8 ff ff ff ff ff ff
C5_Witness ==
    /\ Done /\ V.called
    /\ Given.nonce = IntNum(FALSE, <<63488, 65535, 65535, 65535>>)
    /\ V.computed.ok
    /\ V.computed.nonceBytes = <<0, 248, 255, 255, 255, 255, 255, 255>>

----------------------------------------------------------------------------
(* C6 *)

\* C6, as claimed: every successful response of rollhub_bet or
\* rollhub_coinflip carries a verification computed by verifyBetProof, and
\* rollhub_verify and rollhub_coinflip_verify attach client_verification
\* whenever the proof discloses the server seed.
C6_EveryBetVerified ==
    /\ (Done /\ call.tool \in BetTools /\ result.kind = "returned")
          => (result.field = "verification" /\ V.called /\ ~V.thrown)
    /\ (Done /\ call.tool \in VerifyTools /\ result.kind = "returned"
             /\ (Truthy(reply.data.proof.server_seed)
                   \/ Truthy(reply.data.proof.server_secret)))
          => (result.field = "client_verification" /\ V.called /\ ~V.thrown)

----------------------------------------------------------------------------
(* C7 *)

\* C7: in every object verifyBetProof returns, verified is true exactly when
\* hash_verified and roll_verified are both true.
C7_VerifiedIsConjunction ==
    Checked => (V.verified <=> (V.hash_verified /\ V.roll_verified))

\* a matching commitment with a wrong reported outcome: not verified
C7_Witness == Checked /\ V.hash_verified /\ ~V.roll_verified /\ ~V.verified

----------------------------------------------------------------------------
(* C8 *)

\* the recomputed value (floor c, in units of 10^-9) and the reported value r
\* lie less than half of 10^-6 from the same multiple g of 10^-6
SameRoundingWindow(c, r) ==
    \E g \in {c \div 1000, (c \div 1000) + 1} :
        /\ c - 1000 * g >= -500 /\ c - 1000 * g <= 499
        /\ r - 1000 * g >= -499 /\ r - 1000 * g <= 499

\* C8, as claimed: two outcome values that differ only beyond the sixth
\* decimal digit (their first six decimal digits agree) compare equal.
C8_SameSixDigitsCompareEqual ==
    (Checked /\ V.computed.nano \div 1000 = Given.roll.nano \div 1000)
        => V.roll_verified

\* C8, amended: the outcomes are compared after rounding each to the nearest
\* multiple of 10^-6; they compare equal exactly when both lie within half of
\* 10^-6 of the same multiple (0.732199999 and 0.732200001 do), also when
\* their sixth digits differ, and not when they agree in six digits but lie
\* on different sides of a rounding boundary (0.7321994 and 0.7321996).
C8_EqualIffSameRounding ==
    Checked => (V.roll_verified <=> SameRoundingWindow(V.computed.nano, Given.roll.nano))

\* recomputed 0.732199999..., reported 0.732200001: both 0.732200, equal
C8_Witness ==
    /\ Checked
    /\ V.computed.nano = 732199999
    /\ Given.roll.nano = 732200001
    /\ V.roll_recalculated = 732200 /\ V.roll_reported = 732200
    /\ V.roll_verified

----------------------------------------------------------------------------
(* C9 *)

\* C9: for the proof of a returned verification, replacing server_seed_hash
\* by any other value leaves roll_verified and the two figures as they are,
\* and replacing the reported outcome by any other number leaves
\* hash_verified as it is.
C9_ChecksAreIndependent ==
    Checked =>
        /\ \A h \in Commitments \cup {Missing} :
              LET w == VerifyBetProof([Given EXCEPT !.server_seed_hash = h])
              IN  /\ ~w.thrown
                  /\ w.roll_verified = V.roll_verified
                  /\ w.roll_reported = V.roll_reported
                  /\ w.roll_recalculated = V.roll_recalculated
        /\ \A r \in Rolls \ {MissingNum} :
              LET w == VerifyBetProof([Given EXCEPT !.roll = r])
              IN  /\ ~w.thrown
                  /\ w.hash_verified = V.hash_verified

\* a wrong commitment with a right reported outcome
C9_Witness == Checked /\ ~V.hash_verified /\ V.roll_verified /\ ~V.verified

\* the two combinations the witnesses of C7 and C9 do not show
C9_BothTrue == Checked /\ V.hash_verified /\ V.roll_verified /\ V.verified

C9_BothFalse == Checked /\ ~V.hash_verified /\ ~V.roll_verified /\ ~V.verified

----------------------------------------------------------------------------
(* C10 *)

\* C10, as claimed: once the service has answered a bet with success, the
\* handler returns the service's data, with or without a verification.
C10_SettledBetIsReturned ==
    (Done /\ call.tool \in BetTools /\ reply.ok)
        => (result.kind = "returned" /\ result.data = reply.data)

====
